---- MODULE Spec2Model ----
(***************************************************************************)
(* K-way merge of time-ordered log sources: the asynchronous scheduler of  *)
(* solution/async-sorted-merge.js and the synchronous heap merge of        *)
(* solution/sync-sorted-merge.js, over the LogSource of lib/log-source.js. *)
(*                                                                         *)
(* A log is named by its source and its position in the source's stream;   *)
(* position 0 stands for the value false (the exhausted signal).           *)
(***************************************************************************)
EXTENDS Integers, Sequences, FiniteSets, Bags, TLC

VARIABLES
  entries,        \* entries[s]: the timestamps source s yields, in order (the input)
  last,           \* last[s]: position of this.last in the stream of s (0: the constructor's entry)
  drained,        \* drained[s]: LogSource.drained
  loading,        \* loading[s]: source.loading
  bufferCount,    \* bufferCount[s]: source.bufferCount
  logSources,     \* the live list: sequence of source ids
  priorityQueue,  \* the MinPriorityQueue: a bag of [source, log]
  promiseQueue,   \* sequence of [source, settled]: the promises pushed since the last barrier
  printed,        \* sequence of [source, log] passed to printer.print
  doneCalls,      \* number of calls of printer.done
  fillIndex,      \* synchronous merge: position of the initial for loop in logSources
  returned,       \* LogSource alone: sequence of [source, log] its pop and popAsync calls returned
  syncDates,      \* both merges in turn: the dates the synchronous merge printed
  config,         \* the ceilings the scheduler runs with: [priorityQueueMaxSize, promiseQueueMaxSize]
  pc              \* position of the merge function

vars == <<entries, last, drained, loading, bufferCount, logSources,
          priorityQueue, promiseQueue, printed, doneCalls, fillIndex, returned,
          syncDates, config, pc>>

----------------------------------------------------------------------------
(* Bounds of the checked inputs *)

MaxSources == 2
MaxLen == 2
MaxTime == 2
\* The ceilings checked as arguments: the priority queue's from the source
\* count to FrontierSlack above it, the promise queue's from 1 to MaxConcurrency.
FrontierSlack == 1
\* Longest stream of the merges of a single source.
SingleLen == 12
\* Largest bufferCount of the states source selection is applied to.
MaxBuffer == 2
MaxConcurrency == 2
\* Length of the long streams that fill the priority queue to its ceiling.
DeepLen == 21

(* Program constants *)

PROMISE_QUEUE_MAX_SIZE == 50
PRIORITY_QUEUE_MULTIPLIER == 10

----------------------------------------------------------------------------
(* Helpers *)

Range(f) == {f[i] : i \in DOMAIN f}

NonDecreasing(ts) == \A i \in 1..(Len(ts) - 1) : ts[i] <= ts[i + 1]

SeqsUpTo(S, n) == UNION {[1..m -> S] : m \in 0..n}

\* The streams a source can yield: non-decreasing in timestamp.
Streams == {ts \in SeqsUpTo(1..MaxTime, MaxLen) : NonDecreasing(ts)}

NumSources == Len(entries)

Sources == 1..NumSources

\* Whether a queued or printed element holds a log, not the value false.
IsLog(e) == e.log # 0

\* log.date of an element that holds a log.
Date(e) == entries[e.source][e.log]

\* Every log every source yields before it is exhausted.
AllLogs == UNION {{[source |-> s, log |-> i] : i \in 1..Len(entries[s])} : s \in Sources}

----------------------------------------------------------------------------
(* lib/log-source.js *)

\* this.last = this.getNextPseudoRandomEntry(): the cursor moves to the next
\* entry; every position past the end of the stream is "later than now".
NextLast(s) == IF last[s] >= Len(entries[s]) THEN Len(entries[s]) + 1 ELSE last[s] + 1

\* Faulty variant: the flag is assigned the comparison, so that a call on a
\* drained source clears it.
DrainedFlipsBack(s) == ~drained[s] /\ NextLast(s) > Len(entries[s])

\* if (this.last.date > Date.now()) this.drained = true
DrainedAfterPop(s) == drained[s] \/ NextLast(s) > Len(entries[s])

\* the value a popAsync promise resolves to, read when the delay ends
PopAsyncValue(s) == IF drained[s] THEN 0 ELSE last[s]

\* the value pop() returns: this.drained ? false : this.last, after the move
PopValue(s) == IF DrainedAfterPop(s) THEN 0 ELSE NextLast(s)

----------------------------------------------------------------------------
(* solution/async-sorted-merge.js *)

RECURSIVE FindFrom(_, _, _, _, _)
FindFrom(ls, ld, bc, i, minSource) ==
  IF i > Len(ls) THEN minSource
  ELSE LET source == ls[i] IN
       IF ld[source] THEN FindFrom(ls, ld, bc, i + 1, minSource)
       ELSE IF bc[source] = 0 THEN source
       ELSE IF minSource = 0 \/ bc[source] < bc[minSource]
            THEN FindFrom(ls, ld, bc, i + 1, source)
            ELSE FindFrom(ls, ld, bc, i + 1, minSource)

\* Faulty variant: the preference for a source with bufferCount 0 is lost; the first
\* source that is not loading is taken.
FirstNotLoading(ls, ld, bc) ==
  IF \E i \in 1..Len(ls) : ~ld[ls[i]]
  THEN ls[CHOOSE i \in 1..Len(ls) : ~ld[ls[i]] /\ \A j \in 1..(i - 1) : ld[ls[j]]]
  ELSE 0

\* Faulty variant: minSource is lost; only a source with bufferCount 0 is returned.
FirstUnreadElseNull(ls, ld, bc) ==
  IF \E i \in 1..Len(ls) : ~ld[ls[i]] /\ bc[ls[i]] = 0
  THEN ls[CHOOSE i \in 1..Len(ls) :
            /\ ~ld[ls[i]] /\ bc[ls[i]] = 0
            /\ \A j \in 1..(i - 1) : ld[ls[j]] \/ bc[ls[j]] # 0]
  ELSE 0

\* Faulty variant: the check of source.loading is lost.
FindIgnoringLoading(ls, ld, bc) == FindFrom(ls, [s \in DOMAIN ld |-> FALSE], bc, 1, 0)

\* 0 stands for null
findNextLogSourceToQueue(ls, ld, bc) == FindFrom(ls, ld, bc, 1, 0)

\* Faulty variant: the gate opens as soon as one live source has been read.
SomeSourceHasBeenRead(ls, bc) == \E i \in 1..Len(ls) : bc[ls[i]] > 0

\* Faulty variant: the gate skips the last source of the live list.
AllButLastHaveBeenRead(ls, bc) == \A i \in 1..(Len(ls) - 1) : bc[ls[i]] > 0

allSourcesHaveBeenRead(ls, bc) == \A i \in 1..Len(ls) : bc[ls[i]] > 0

\* Faulty variant: the queue always counts as full.
QueueIsAlwaysFull(pq, maxSize, prq) == TRUE

\* Faulty variant: the queue counts as full one element early.
QueueIsFullOneEarly(pq, maxSize, prq) == BagCardinality(pq) + Len(prq) >= maxSize - 1

\* Faulty variant: the in-flight promises are not counted.
QueueIsFullIgnoringInFlight(pq, maxSize, prq) == BagCardinality(pq) >= maxSize

priorityQueueIsFull(pq, maxSize, prq) == BagCardinality(pq) + Len(prq) >= maxSize

promiseQueueIsFull(prq, maxSize) == Len(prq) >= maxSize

\* Faulty variant: loading sources never trigger the barrier.
NeverAllLoading(ls, ld) == FALSE

allSourcesAreLoading(ls, ld) == \A i \in 1..Len(ls) : ld[ls[i]]

\* Faulty variant: the loop ends when the queue is empty, whatever is live.
ContinueWhileQueued(ls, pq) == BagCardinality(pq) # 0

\* Faulty variant: the loop ends when the live list is empty, whatever is queued.
ContinueWhileLive(ls, pq) == Len(ls) > 0

continueLoop(ls, pq) == Len(ls) > 0 \/ BagCardinality(pq) # 0

MAX_PRIORITY_QUEUE_SIZE == NumSources * PRIORITY_QUEUE_MULTIPLIER

\* Faulty variant: the comparator is lost; any element may be at the root.
AnyElement(pq) == BagToSet(pq)

\* The elements pop() of the MinPriorityQueue may return: one of least date
\* (the heap does not say which of two equal dates comes first). The date of
\* an element holding false is undefined and compares false with every date,
\* so a heap holding one is no longer ordered: any element may be at its root.
PopCandidates(pq) ==
  IF \E e \in BagToSet(pq) : ~IsLog(e)
  THEN BagToSet(pq)
  ELSE {e \in BagToSet(pq) : \A f \in BagToSet(pq) : Date(e) <= Date(f)}

\* Faulty variant: the predicate of the filter is inverted.
FilterLive(ls, dr) == SelectSeq(ls, LAMBDA s : dr[s])

\* Faulty variant: drained sources stay in the live list.
KeepDrained(ls, dr) == ls

FilterDrained(ls, dr) == SelectSeq(ls, LAMBDA s : ~dr[s])

\* Lines 221-227: the emission gate, printNextLogFromQueue, and the filter of
\* the live list; dr is the drained flags as the tick has left them.
EmitAndFilter(dr) ==
  IF allSourcesHaveBeenRead(logSources, bufferCount)
  THEN IF priorityQueue = EmptyBag
       THEN \* priorityQueue.pop() returns null: the destructuring throws
            /\ pc' = "TypeError"
            /\ UNCHANGED <<priorityQueue, printed, bufferCount, logSources>>
       ELSE \E e \in PopCandidates(priorityQueue) :
              /\ priorityQueue' = priorityQueue (-) SetToBag({e})
              /\ printed' = Append(printed, e)
              /\ bufferCount' = [bufferCount EXCEPT ![e.source] = @ - 1]
              /\ logSources' = FilterDrained(logSources, dr)
              /\ pc' = "loop"
  ELSE /\ logSources' = FilterDrained(logSources, dr)
       /\ pc' = "loop"
       /\ UNCHANGED <<priorityQueue, printed, bufferCount>>

\* One iteration of the main loop, up to its end or to the await of line 211.
Tick ==
  /\ pc = "loop"
  /\ continueLoop(logSources, priorityQueue)
  /\ UNCHANGED <<entries, syncDates, returned, config, doneCalls, fillIndex>>
  /\ IF BagCardinality(priorityQueue) > config.priorityQueueMaxSize
     THEN \* priorityQueueIsFull throws "PriorityQueue exceeded MaxSize" (lines 79-81)
          /\ pc' = "MaxSizeError"
          /\ UNCHANGED <<last, drained, loading, bufferCount, logSources,
                         priorityQueue, promiseQueue, printed>>
     ELSE LET fullPriorityQueue ==
                priorityQueueIsFull(priorityQueue, config.priorityQueueMaxSize, promiseQueue)
              fullPromiseQueue == promiseQueueIsFull(promiseQueue, config.promiseQueueMaxSize)
              source == IF ~fullPriorityQueue
                        THEN findNextLogSourceToQueue(logSources, loading, bufferCount)
                        ELSE 0
              ld == IF source # 0 THEN [loading EXCEPT ![source] = TRUE] ELSE loading
              la == IF source # 0 THEN [last EXCEPT ![source] = NextLast(source)] ELSE last
              dr == IF source # 0 THEN [drained EXCEPT ![source] = DrainedAfterPop(source)]
                    ELSE drained
              prq == IF source # 0
                     THEN Append(promiseQueue, [source |-> source, settled |-> FALSE])
                     ELSE promiseQueue
          IN /\ loading' = ld
             /\ last' = la
             /\ drained' = dr
             /\ promiseQueue' = prq
             /\ IF Len(prq) > 0 /\ (fullPriorityQueue \/ fullPromiseQueue
                                     \/ allSourcesAreLoading(logSources, ld))
                THEN /\ pc' = "await"
                     /\ UNCHANGED <<bufferCount, logSources, priorityQueue, printed>>
                ELSE EmitAndFilter(dr)

\* Faulty variant: the callback pushes the log and leaves bufferCount alone.
SettleWithoutCount(i) ==
  LET source == promiseQueue[i].source
      log == PopAsyncValue(source)
  IN /\ promiseQueue' = [promiseQueue EXCEPT ![i].settled = TRUE]
     /\ loading' = [loading EXCEPT ![source] = FALSE]
     /\ priorityQueue' =
          IF log # 0
          THEN priorityQueue (+) SetToBag({[source |-> source, log |-> log]})
          ELSE priorityQueue
     /\ UNCHANGED <<entries, syncDates, returned, config, last, drained, bufferCount, logSources,
                    printed, doneCalls, fillIndex, pc>>

\* The callback of lines 43-50 for the i-th promise of the batch.
Settle(i) ==
  LET source == promiseQueue[i].source
      log == PopAsyncValue(source)
  IN /\ promiseQueue' = [promiseQueue EXCEPT ![i].settled = TRUE]
     /\ loading' = [loading EXCEPT ![source] = FALSE]
     /\ IF log # 0
        THEN /\ priorityQueue' = priorityQueue (+) SetToBag({[source |-> source, log |-> log]})
             /\ bufferCount' = [bufferCount EXCEPT ![source] = @ + 1]
        ELSE UNCHANGED <<priorityQueue, bufferCount>>
     /\ UNCHANGED <<entries, syncDates, returned, config, last, drained, logSources, printed, doneCalls, fillIndex, pc>>

\* A fetch of the awaited batch completes; the delays are random, so any
\* outstanding one may be next.
Resolve ==
  /\ pc = "await"
  /\ \E i \in 1..Len(promiseQueue) :
       /\ ~promiseQueue[i].settled
       /\ Settle(i)

\* Faulty variant: the loop goes on as soon as one fetch of the batch has
\* completed (a race in place of Promise.all).
ResumeAfterFirst ==
  /\ pc = "await"
  /\ \E i \in 1..Len(promiseQueue) : promiseQueue[i].settled
  /\ promiseQueue' = <<>>
  /\ EmitAndFilter(drained)
  /\ UNCHANGED <<entries, syncDates, returned, config, last, drained, loading, doneCalls, fillIndex>>

\* Promise.all has resolved: lines 215-227.
Resume ==
  /\ pc = "await"
  /\ \A i \in 1..Len(promiseQueue) : promiseQueue[i].settled
  /\ promiseQueue' = <<>>
  /\ EmitAndFilter(drained)
  /\ UNCHANGED <<entries, syncDates, returned, config, last, drained, loading, doneCalls, fillIndex>>

\* The loop has ended: printer.done(), line 234.
Finish ==
  /\ pc = "loop"
  /\ ~continueLoop(logSources, priorityQueue)
  /\ doneCalls' = doneCalls + 1
  /\ pc' = "done"
  /\ UNCHANGED <<entries, syncDates, returned, config, last, drained, loading, bufferCount, logSources,
                 priorityQueue, promiseQueue, printed, fillIndex>>

\* The ceilings of the code: 10 times the source count (line 165) and 50 (line 193).
CodeConfig(in) ==
  [priorityQueueMaxSize |-> Len(in) * PRIORITY_QUEUE_MULTIPLIER,
   promiseQueueMaxSize |-> PROMISE_QUEUE_MAX_SIZE]

\* The state module.exports builds before the loop (lines 165-169), for the
\* input streams in and the ceilings cfg.
AsyncStartWith(in, cfg) ==
  /\ entries = in
  /\ config = cfg
  /\ returned = <<>>
  /\ syncDates = <<>>
  /\ last = [s \in 1..Len(in) |-> 0]
  /\ drained = [s \in 1..Len(in) |-> FALSE]
  /\ loading = [s \in 1..Len(in) |-> FALSE]
  /\ bufferCount = [s \in 1..Len(in) |-> 0]
  /\ logSources = [i \in 1..Len(in) |-> i]
  /\ priorityQueue = EmptyBag
  /\ promiseQueue = <<>>
  /\ printed = <<>>
  /\ doneCalls = 0
  /\ fillIndex = 0
  /\ pc = "loop"

AsyncStart(in) == AsyncStartWith(in, CodeConfig(in))

\* Every choice of at most MaxSources short streams.
Inputs == UNION {[1..k -> Streams] : k \in 0..MaxSources}

\* Three sources whose merge is 1,2,3,4,5,6,7,9,10.
Scenario == << <<1, 5, 9>>, <<2, 3, 10>>, <<4, 6, 7>> >>

\* Two long streams, one wholly earlier than the other: the later one is
\* fetched once per print of the earlier and piles up in the priority queue.
DeepInputs ==
  { << [i \in 1..DeepLen |-> i], [i \in 1..DeepLen |-> DeepLen + i] >>,
    << [i \in 1..DeepLen |-> DeepLen + i], [i \in 1..DeepLen |-> i] >> }

\* Streams of early (1) and late (MaxTime) logs only.
TwoTimeStreams == {ts \in Streams : \A i \in 1..Len(ts) : ts[i] \in {1, MaxTime}}

\* Every choice of three such streams.
ThreeSourceInputs == [1..3 -> TwoTimeStreams]

Init ==
  \E in \in Inputs \cup ThreeSourceInputs \cup {Scenario} \cup DeepInputs : AsyncStart(in)

Next == Tick \/ Resolve \/ Resume \/ Finish

Spec == Init /\ [][Next]_vars

\* At most max(MaxSources, 3) sources, with early and late logs only.
TwoTimeInputs == UNION {[1..k -> TwoTimeStreams] : k \in 0..MaxSources} \cup ThreeSourceInputs

FairInit == \E in \in TwoTimeInputs \cup {Scenario} \cup DeepInputs : AsyncStart(in)

\* The loop runs on, and every issued fetch resolves (P.delay of at most 8 ms).
SpecFair ==
  /\ FairInit
  /\ [][Next]_vars
  /\ WF_vars(Tick) /\ WF_vars(Resolve) /\ WF_vars(Resume) /\ WF_vars(Finish)

\* The ceilings of lines 165 and 193 as arguments: every pair of a priority
\* queue ceiling of at least the source count and a promise queue ceiling of
\* at least 1, within the bounds.
Configs(in) ==
  [priorityQueueMaxSize : Len(in)..(Len(in) + FrontierSlack),
   promiseQueueMaxSize : 1..MaxConcurrency]

\* The source s of k yields the dates s, s + k, s + 2k, ...: all distinct,
\* interleaved across the sources.
Staggered(k, lens) == [s \in 1..k |-> [i \in 1..lens[s] |-> (i - 1) * k + s]]

StaggeredInputs ==
  UNION {{Staggered(k, lens) : lens \in [1..k -> 0..MaxLen]} : k \in 0..MaxSources}

\* Every source yields the same dates 1, 2, ..., n: every date is a tie.
AlignedInputs ==
  {[s \in 1..k |-> [i \in 1..n |-> i]] : k \in 1..MaxSources, n \in 1..MaxLen}

CeilingsInit ==
  \E in \in StaggeredInputs \cup AlignedInputs :
    \E cfg \in Configs(in) : AsyncStartWith(in, cfg)

SpecCeilings ==
  /\ CeilingsInit
  /\ [][Next]_vars
  /\ WF_vars(Tick) /\ WF_vars(Resolve) /\ WF_vars(Resume) /\ WF_vars(Finish)

\* A single source of up to SingleLen logs, with all dates distinct or with
\* every date occurring twice.
SingleInputs ==
  {<<[i \in 1..n |-> i]>> : n \in 0..SingleLen}
    \cup {<<[i \in 1..n |-> (i + 1) \div 2]>> : n \in 2..SingleLen}

SingleInit == \E in \in SingleInputs : AsyncStart(in)

SpecSingle ==
  /\ SingleInit
  /\ [][Next]_vars
  /\ WF_vars(Tick) /\ WF_vars(Resolve) /\ WF_vars(Resume) /\ WF_vars(Finish)

\* More sources than PROMISE_QUEUE_MAX_SIZE, one log each; the fetches of a
\* batch complete in the order they were issued (equal delays).
WideSources == PROMISE_QUEUE_MAX_SIZE + 1

ResolveInOrder ==
  /\ pc = "await"
  /\ \E i \in 1..Len(promiseQueue) :
       /\ ~promiseQueue[i].settled
       /\ \A j \in 1..(i - 1) : promiseQueue[j].settled
       /\ Settle(i)

WideInit == AsyncStart([s \in 1..WideSources |-> <<s>>])

WideNext == Tick \/ ResolveInOrder \/ Resume \/ Finish

SpecWide == WideInit /\ [][WideNext]_vars

----------------------------------------------------------------------------
(* Properties of the asynchronous merge *)

Dates(out) == [i \in 1..Len(out) |-> Date(out[i])]

\* Number of fetches of source s issued and not yet resolved.
InFlight(s) ==
  Cardinality({i \in 1..Len(promiseQueue) :
                 promiseQueue[i].source = s /\ ~promiseQueue[i].settled})

InFlightCount ==
  Cardinality({i \in 1..Len(promiseQueue) : ~promiseQueue[i].settled})

LiveSet == Range(logSources)

\* C1: whatever the order in which the fetches of a batch complete, the
\* timestamps passed to printer.print never decrease, and the sources
\* [1,5,9], [2,3,10], [4,6,7] print 1,2,3,4,5,6,7,9,10.
C1_PrintedInOrder ==
  /\ NonDecreasing(Dates(printed))
  /\ (pc = "done" /\ entries = Scenario) => Dates(printed) = <<1, 2, 3, 4, 5, 6, 7, 9, 10>>

\* A finished run that printed logs of two sources, the later-listed first.
C1_Witness ==
  /\ pc = "done"
  /\ \E i, j \in 1..Len(printed) :
       /\ i < j
       /\ printed[i].source > printed[j].source
       /\ Date(printed[i]) < Date(printed[j])

\* C2: when the run has finished, every log of every source has been printed
\* exactly once and nothing else has been printed.
C2_AllPrintedOnce ==
  pc = "done" =>
    /\ Range(printed) = AllLogs
    /\ Len(printed) = Cardinality(AllLogs)

\* A finished run in which logs of two sources were printed.
C2_Witness ==
  /\ pc = "done"
  /\ Len(printed) >= 3
  /\ \E i, j \in 1..Len(printed) : printed[i].source # printed[j].source

\* C3: the loop ends and printer.done() is called exactly once, after the
\* last print; nothing is printed after it.
C3_TerminatesDoneOnce ==
  /\ <>(pc = "done")
  /\ [](doneCalls <= 1)
  /\ [](pc = "done" => doneCalls = 1)
  /\ [][doneCalls > 0 => printed' = printed]_vars

\* A run that printed several logs and then called done().
C3_Witness == pc = "done" /\ doneCalls = 1 /\ Len(printed) >= 2

\* C4 as stated: every source's bufferCount is at most 1.
C4_AtMostOneResident == \A s \in Sources : bufferCount[s] <= 1

\* C4, amended: a bufferCount may exceed 1 but never the ceiling of the
\* priority queue; a fetch goes to a source that already has a log in the
\* queue only when every live source that is not loading has one too, and
\* never to a source that is loading.
C4_FetchBufferedOnlyWhenCovered ==
  /\ [](\A s \in Sources : bufferCount[s] <= MAX_PRIORITY_QUEUE_SIZE)
  /\ [][\A s \in Sources :
          (Len(promiseQueue') > Len(promiseQueue)
             /\ promiseQueue'[Len(promiseQueue')].source = s)
          => /\ ~loading[s]
             /\ bufferCount[s] >= 1 =>
                  \A t \in LiveSet : loading[t] \/ bufferCount[t] >= 1]_vars

\* A fetch is in flight for a source that already has a log in the queue.
C4_Witness == \E s \in Sources : loading[s] /\ bufferCount[s] >= 1 /\ InFlight(s) = 1

\* C5: the number of in-flight fetches never exceeds the concurrency ceiling.
C5_InFlightWithinCeiling == Len(promiseQueue) <= PROMISE_QUEUE_MAX_SIZE

\* C6: resident logs plus in-flight fetches never exceed the ceiling of the
\* priority queue, and "PriorityQueue exceeded MaxSize" is never thrown.
C6_WithinFrontierCeiling ==
  /\ BagCardinality(priorityQueue) + InFlightCount <= MAX_PRIORITY_QUEUE_SIZE
  /\ pc = "loop" =>
       BagCardinality(priorityQueue) + Len(promiseQueue) <= MAX_PRIORITY_QUEUE_SIZE
  /\ pc # "MaxSizeError"

\* A tick starts with the queue full: resident plus in-flight at the ceiling.
C6_Witness ==
  /\ pc = "loop"
  /\ NumSources > 0
  /\ Len(promiseQueue) > 0
  /\ BagCardinality(priorityQueue) + Len(promiseQueue) = MAX_PRIORITY_QUEUE_SIZE

\* C7: each source has at most one fetch in flight, and has one exactly when
\* it is loading.
C7_OneFetchPerSource ==
  \A s \in Sources : InFlight(s) <= 1 /\ (loading[s] <=> InFlight(s) = 1)

\* During a barrier, one source's fetch has resolved while another's is
\* still outstanding, the later-issued one first.
C7_Witness ==
  /\ pc = "await"
  /\ \E i, j \in 1..Len(promiseQueue) :
       i < j /\ ~promiseQueue[i].settled /\ promiseQueue[j].settled

\* C8: a log is printed only when every source of the live list has
\* bufferCount >= 1 (the counts the emission gate reads: those before the
\* step for a tick that does not await, those at the end of the barrier
\* otherwise).
C8_PrintOnlyWhenAllRead ==
  [][printed' # printed => \A s \in LiveSet : bufferCount[s] >= 1]_vars

\* A tick has ended without printing: a live source has bufferCount 0 while
\* the queue holds a log of another.
C8_Witness ==
  /\ pc = "loop"
  /\ priorityQueue # EmptyBag
  /\ \E s \in LiveSet : bufferCount[s] = 0
  /\ Len(printed) > 0

\* C12: for every priority queue ceiling of at least the source count and
\* every promise queue ceiling of at least 1, the run ends with done(), having
\* printed every log exactly once in non-decreasing date order; the loop
\* never throws and never iterates forever.
C12_CorrectForAnyCeilings ==
  /\ <>(pc = "done")
  /\ [](pc \notin {"MaxSizeError", "TypeError"})
  /\ [](NonDecreasing(Dates(printed)))
  /\ [](pc = "done" => (Range(printed) = AllLogs /\ Len(printed) = Cardinality(AllLogs)))

\* A finished merge of several sources under the tightest ceilings: the
\* priority queue's equal to the source count, the promise queue's 1.
C12_Witness ==
  /\ pc = "done"
  /\ NumSources >= 2
  /\ config = [priorityQueueMaxSize |-> NumSources, promiseQueueMaxSize |-> 1]
  /\ Len(printed) >= 3
  /\ \E i, j \in 1..Len(printed) : printed[i].source # printed[j].source

\* C14 as stated: a source leaves the live list only in a state where it is
\* drained and its bufferCount is 0.
C14_RetiredOnlyWhenEmpty ==
  [][\A s \in Sources :
       (s \in LiveSet /\ s \notin Range(logSources')) =>
         (drained'[s] /\ bufferCount'[s] = 0)]_vars

\* C14, amended: a source that has left the live list is drained and its
\* popAsync has been called past its last log, so none of its logs can still
\* arrive; its bufferCount may be positive, and counts its logs still in the
\* priority queue.
C14_RetiredWhenDrained ==
  \A s \in Sources \ LiveSet :
    /\ drained[s]
    /\ last[s] > Len(entries[s])
    /\ bufferCount[s] =
         Cardinality({e \in BagToSet(priorityQueue) : e.source = s})

\* A source has left the live list with a log of its own still in the
\* priority queue, while another source is live.
C14_Witness ==
  /\ pc = "loop"
  /\ logSources # <<>>
  /\ \E s \in Sources \ LiveSet : drained[s] /\ bufferCount[s] >= 1

\* C15: the loop leaves the await only when every promise of the batch has
\* settled; promiseQueue is then empty and no source, live or retired, is
\* loading. At the start of every iteration the number of loading sources is
\* the number of promises in promiseQueue, none of them settled.
C15_BarrierIsFull ==
  /\ [](pc = "loop" =>
         /\ Cardinality({s \in Sources : loading[s]}) = Len(promiseQueue)
         /\ \A i \in 1..Len(promiseQueue) : ~promiseQueue[i].settled)
  /\ [][(pc = "await" /\ pc' # "await") =>
          /\ \A i \in 1..Len(promiseQueue) : promiseQueue[i].settled
          /\ promiseQueue' = <<>>
          /\ \A s \in Sources : ~loading'[s]]_vars

\* Every fetch of a batch of two or more has completed, one of them for a
\* source that had already left the live list; the await is about to end.
C15_Witness ==
  /\ pc = "await"
  /\ Len(promiseQueue) >= 2
  /\ \A i \in 1..Len(promiseQueue) : promiseQueue[i].settled
  /\ \E i \in 1..Len(promiseQueue) : promiseQueue[i].source \notin LiveSet
  /\ \A s \in Sources : ~loading[s]

\* Number of elements of source s in the priority queue.
Resident(s) ==
  BagCardinality([e \in {f \in BagToSet(priorityQueue) : f.source = s} |->
                    CopiesIn(e, priorityQueue)])

\* C16: every bufferCount is at least 0 and is the number of that source's
\* logs in the priority queue, for live and for retired sources; the size of
\* the priority queue is the sum of the bufferCounts.
C16_BufferCountIsResident ==
  /\ \A s \in Sources : bufferCount[s] >= 0 /\ bufferCount[s] = Resident(s)
  /\ BagCardinality(priorityQueue) =
       BagCardinality([s \in {t \in Sources : bufferCount[t] > 0} |-> bufferCount[s]])

\* After a print: a live source holds two logs in the queue, another none,
\* and a retired source one.
C16_Witness ==
  /\ Len(printed) > 0
  /\ \E s, t \in LiveSet : bufferCount[s] = 2 /\ bufferCount[t] = 0
  /\ \E r \in Sources \ LiveSet : bufferCount[r] = 1

\* C17: with a single source the logs are printed in the source's order and
\* the run ends with all of them printed. Every iteration starts with the
\* priority queue and promiseQueue empty, issues one fetch and awaits it; the
\* log it yields, if any, is printed before the iteration ends.
C17_SingleSourceNoStall ==
  /\ <>(pc = "done")
  /\ [](printed = [i \in 1..Len(printed) |-> [source |-> 1, log |-> i]])
  /\ [](pc = "done" => Len(printed) = Len(entries[1]))
  /\ [](pc = "loop" => (priorityQueue = EmptyBag /\ promiseQueue = <<>>))
  /\ [][(pc = "loop" /\ pc' # "done") =>
          (pc' = "await" /\ Len(promiseQueue') = 1 /\ loading'[1])]_vars
  /\ [][(pc = "await" /\ pc' # "await") =>
          /\ pc' = "loop"
          /\ Len(printed') = Len(printed) + bufferCount[1]
          /\ bufferCount'[1] = 0]_vars

\* The merge of the longest single source has finished.
C17_Witness ==
  /\ pc = "done"
  /\ NumSources = 1
  /\ Len(printed) = SingleLen
  /\ Date(printed[1]) = Date(printed[2])

\* C19: whenever the loop is about to iterate, the iteration issues a fetch,
\* or awaits a batch that is not empty, or prints a log; in particular the
\* loop is never about to iterate with the priority queue full, no promise
\* in flight and a live source with bufferCount 0.
C19_EveryTickProgresses ==
  /\ (pc = "loop" /\ continueLoop(logSources, priorityQueue)) =>
       ENABLED (/\ Tick
                /\ \/ Len(promiseQueue') > Len(promiseQueue)
                   \/ (pc' = "await" /\ Len(promiseQueue') > 0)
                   \/ Len(printed') > Len(printed))
  /\ ~(/\ pc = "loop"
        /\ priorityQueueIsFull(priorityQueue, config.priorityQueueMaxSize, promiseQueue)
        /\ promiseQueue = <<>>
        /\ \E s \in LiveSet : bufferCount[s] = 0)

\* The loop is about to iterate with every source retired and logs left in
\* the priority queue: the iteration can only print.
C19_Witness ==
  /\ pc = "loop"
  /\ logSources = <<>>
  /\ BagCardinality(priorityQueue) >= 2
  /\ Len(printed) >= 1

\* C20: when printer.done() has been called the live list and the priority
\* queue are empty, no promise is in flight and no source is loading: every
\* popAsync issued has resolved.
C20_DoneWhenAllSettled ==
  doneCalls > 0 =>
    /\ logSources = <<>>
    /\ priorityQueue = EmptyBag
    /\ promiseQueue = <<>>
    /\ \A s \in Sources : ~loading[s] /\ drained[s] /\ bufferCount[s] = 0

\* done() has been called after a merge of several sources, one of them
\* empty from the start, another the source of the last log printed.
C20_Witness ==
  /\ doneCalls = 1
  /\ NumSources >= 2
  /\ Len(printed) >= 2
  /\ \E s \in Sources : entries[s] = <<>>
  /\ printed[Len(printed)].source # printed[1].source

\* The members of S in increasing order: the live list keeps the order of
\* the sources (filter, line 227).
InOrder(S) ==
  CHOOSE f \in [1..Cardinality(S) -> S] : \A i, j \in 1..Cardinality(S) : i < j => f[i] < f[j]

\* addNextLogToQueue (lines 57-64) with the synchronous part of
\* queueLogFromSource (lines 42-53), applied once.
AddNext ==
  /\ pc = "select"
  /\ pc' = "selected"
  /\ LET source == findNextLogSourceToQueue(logSources, loading, bufferCount)
     IN IF source # 0
        THEN /\ loading' = [loading EXCEPT ![source] = TRUE]
             /\ last' = [last EXCEPT ![source] = NextLast(source)]
             /\ drained' = [drained EXCEPT ![source] = DrainedAfterPop(source)]
             /\ promiseQueue' = Append(promiseQueue, [source |-> source, settled |-> FALSE])
        ELSE UNCHANGED <<loading, last, drained, promiseQueue>>
  /\ UNCHANGED <<entries, syncDates, returned, config, bufferCount, logSources, priorityQueue,
                 printed, doneCalls, fillIndex>>

\* Source selection applied to any live list, loading flags and bufferCounts
\* up to MaxBuffer: each source has bufferCount logs in the priority queue and
\* a promise in flight when it is loading.
SelectInit ==
  \E k \in 1..MaxSources :
    \E live \in SUBSET (1..k), ld \in [1..k -> BOOLEAN], bc \in [1..k -> 0..MaxBuffer] :
      /\ entries = Staggered(k, [s \in 1..k |-> MaxBuffer + 2])
      /\ config = CodeConfig(entries)
      /\ returned = <<>>
      /\ syncDates = <<>>
      /\ last = [s \in 1..k |-> bc[s] + (IF ld[s] THEN 1 ELSE 0)]
      /\ drained = [s \in 1..k |-> FALSE]
      /\ loading = ld
      /\ bufferCount = bc
      /\ logSources = InOrder(live)
      /\ priorityQueue =
           SetToBag(UNION {{[source |-> s, log |-> i] : i \in 1..bc[s]} : s \in 1..k})
      /\ promiseQueue =
           [i \in 1..Cardinality({s \in 1..k : ld[s]}) |->
              [source |-> InOrder({s \in 1..k : ld[s]})[i], settled |-> FALSE]]
      /\ printed = <<>>
      /\ doneCalls = 0
      /\ fillIndex = 0
      /\ pc = "select"

SelectNext == AddNext

SpecSelect == SelectInit /\ [][SelectNext]_vars

\* The live sources that are not loading.
Selectable == {s \in LiveSet : ~loading[s]}

\* C13: the source selected for the next fetch is live and not loading; it
\* has bufferCount 0 whenever some live source that is not loading has
\* bufferCount 0, so a source with bufferCount >= 1 is selected only when
\* every live source that is not loading has bufferCount >= 1; and no source
\* is selected (null) only when every live source is loading or none is left.
C13_SelectsUnreadFirst ==
  /\ [](findNextLogSourceToQueue(logSources, loading, bufferCount) = 0 => Selectable = {})
  /\ [][(pc = "select" /\ Selectable # {}) =>
          /\ Len(promiseQueue') = Len(promiseQueue) + 1
          /\ LET sel == promiseQueue'[Len(promiseQueue')].source
             IN /\ sel \in Selectable
                /\ (\E s \in Selectable : bufferCount[s] = 0) => bufferCount[sel] = 0
                /\ bufferCount[sel] >= 1 => \A s \in Selectable : bufferCount[s] >= 1]_vars

\* The selection went to a source that already had a log in the queue, past
\* a live source with bufferCount 0 that is loading.
C13_Witness ==
  /\ pc = "selected"
  /\ Len(promiseQueue) >= 2
  /\ LET sel == promiseQueue[Len(promiseQueue)].source
     IN /\ bufferCount[sel] >= 1
        /\ \E s \in LiveSet :
             s < sel /\ bufferCount[s] = 0 /\ promiseQueue[1].source = s

----------------------------------------------------------------------------
(* solution/sync-sorted-merge.js *)

\* One iteration of the initial for loop (lines 10-13): the popped value is
\* pushed whatever it is.
SyncFill ==
  /\ pc = "sync"
  /\ fillIndex <= Len(logSources)
  /\ LET source == logSources[fillIndex]
         log == PopValue(source)
     IN /\ last' = [last EXCEPT ![source] = NextLast(source)]
        /\ drained' = [drained EXCEPT ![source] = DrainedAfterPop(source)]
        /\ priorityQueue' = priorityQueue (+) SetToBag({[source |-> source, log |-> log]})
  /\ fillIndex' = fillIndex + 1
  /\ UNCHANGED <<entries, syncDates, returned, config, loading, bufferCount, logSources, promiseQueue,
                 printed, doneCalls, pc>>

\* Faulty variant: the refill pops the first source of the list, whichever
\* source the printed log came from.
SyncRefillFirst(e) ==
  LET first == logSources[1] IN
  IF ~drained[first]
  THEN /\ last' = [last EXCEPT ![first] = NextLast(first)]
       /\ drained' = [drained EXCEPT ![first] = DrainedAfterPop(first)]
       /\ priorityQueue' =
            IF PopValue(first) # 0
            THEN (priorityQueue (-) SetToBag({e}))
                   (+) SetToBag({[source |-> first, log |-> PopValue(first)]})
            ELSE priorityQueue (-) SetToBag({e})
  ELSE /\ priorityQueue' = priorityQueue (-) SetToBag({e})
       /\ UNCHANGED <<last, drained>>

\* The refill of lines 23-26 after e has been popped.
SyncRefill(e) ==
  IF ~drained[e.source]
  THEN /\ last' = [last EXCEPT ![e.source] = NextLast(e.source)]
       /\ drained' = [drained EXCEPT ![e.source] = DrainedAfterPop(e.source)]
       /\ priorityQueue' =
            IF PopValue(e.source) # 0
            THEN (priorityQueue (-) SetToBag({e}))
                   (+) SetToBag({[source |-> e.source, log |-> PopValue(e.source)]})
            ELSE priorityQueue (-) SetToBag({e})
  ELSE /\ priorityQueue' = priorityQueue (-) SetToBag({e})
       /\ UNCHANGED <<last, drained>>

\* One iteration of the while loop (lines 15-27).
SyncStep ==
  /\ pc = "sync"
  /\ fillIndex > Len(logSources)
  /\ priorityQueue # EmptyBag
  /\ \E e \in PopCandidates(priorityQueue) :
       /\ printed' = Append(printed, e)
       /\ SyncRefill(e)
  /\ UNCHANGED <<entries, syncDates, returned, config, loading, bufferCount, logSources, promiseQueue,
                 doneCalls, fillIndex, pc>>

\* The heap is empty: printer.done(), line 29.
SyncDone ==
  /\ pc = "sync"
  /\ fillIndex > Len(logSources)
  /\ priorityQueue = EmptyBag
  /\ doneCalls' = doneCalls + 1
  /\ pc' = "done"
  /\ UNCHANGED <<entries, syncDates, returned, config, last, drained, loading, bufferCount, logSources,
                 priorityQueue, promiseQueue, printed, fillIndex>>

SyncStart(in) ==
  /\ entries = in
  /\ config = CodeConfig(in)
  /\ returned = <<>>
  /\ syncDates = <<>>
  /\ last = [s \in 1..Len(in) |-> 0]
  /\ drained = [s \in 1..Len(in) |-> FALSE]
  /\ loading = [s \in 1..Len(in) |-> FALSE]
  /\ bufferCount = [s \in 1..Len(in) |-> 0]
  /\ logSources = [i \in 1..Len(in) |-> i]
  /\ priorityQueue = EmptyBag
  /\ promiseQueue = <<>>
  /\ printed = <<>>
  /\ doneCalls = 0
  /\ fillIndex = 1
  /\ pc = "sync"

SyncInit == \E in \in Inputs : SyncStart(in)

SyncNext == SyncFill \/ SyncStep \/ SyncDone

SpecSync == SyncInit /\ [][SyncNext]_vars

----------------------------------------------------------------------------
(* Properties of the synchronous merge *)

\* C9: every element printed is a log, the earliest not yet printed; when
\* the merge has finished every log has been printed exactly once and
\* printer.done() has been called once.
C9_SyncPrintsEarliest ==
  /\ \A i \in 1..Len(printed) :
       /\ IsLog(printed[i])
       /\ \A e \in AllLogs \ {printed[j] : j \in 1..(i - 1)} :
            Date(printed[i]) <= Date(e)
  /\ pc = "done" =>
       /\ Range(printed) = AllLogs
       /\ Len(printed) = Cardinality(AllLogs)
       /\ doneCalls = 1

\* C10: with a source that is empty from the start, the value false is never
\* in the heap and never printed, and the finished merge has printed the
\* logs of the other sources and called printer.done().
C10_ExhaustedNeverQueued ==
  (\E s \in Sources : entries[s] = <<>>) =>
    /\ \A e \in BagToSet(priorityQueue) : IsLog(e)
    /\ \A i \in 1..Len(printed) : IsLog(printed[i])
    /\ pc = "done" => (Range(printed) = AllLogs /\ doneCalls = 1)

\* C18: in the synchronous merge the heap holds at most one element of each
\* source in every state, so never more elements than there are sources.
C18_SyncOnePerSource ==
  /\ \A s \in Sources : Resident(s) <= 1
  /\ BagCardinality(priorityQueue) <= NumSources

\* After a print and its refill the heap again holds one log of each of
\* several sources.
C18_Witness ==
  /\ pc = "sync"
  /\ NumSources >= 2
  /\ Len(printed) >= 1
  /\ \A s \in Sources : Resident(s) = 1
  /\ \A e \in BagToSet(priorityQueue) : IsLog(e)
  /\ \E e \in BagToSet(priorityQueue) : e.log >= 2

----------------------------------------------------------------------------
(* Both merges, one after the other, over sources of the same contents *)

\* The synchronous merge has called done(); the dates it printed are kept,
\* and the asynchronous merge is set up (lines 165-169) with new sources that
\* yield the same logs and a new printer.
StartAsync ==
  /\ pc = "done"
  /\ fillIndex # 0
  /\ syncDates' = [i \in 1..Len(printed) |-> Date(printed[i])]
  /\ last' = [s \in Sources |-> 0]
  /\ drained' = [s \in Sources |-> FALSE]
  /\ loading' = [s \in Sources |-> FALSE]
  /\ bufferCount' = [s \in Sources |-> 0]
  /\ logSources' = [i \in Sources |-> i]
  /\ priorityQueue' = EmptyBag
  /\ promiseQueue' = <<>>
  /\ printed' = <<>>
  /\ doneCalls' = 0
  /\ fillIndex' = 0
  /\ pc' = "loop"
  /\ UNCHANGED <<entries, returned, config>>

\* Sources that each yield at least one log: early and late logs only, or
\* all dates distinct.
NonEmptyInputs ==
  UNION {[1..k -> TwoTimeStreams \ {<<>>}] : k \in 0..MaxSources}
    \cup UNION {{Staggered(k, lens) : lens \in [1..k -> 1..MaxLen]} : k \in 1..MaxSources}

BothInit == \E in \in NonEmptyInputs : SyncStart(in)

BothNext ==
  SyncFill \/ SyncStep \/ SyncDone \/ StartAsync \/ Tick \/ Resolve \/ Resume \/ Finish

SpecBoth == BothInit /\ [][BothNext]_vars

\* The asynchronous merge is running or has finished, after the synchronous one.
AsyncPhase == fillIndex = 0 /\ pc \in {"loop", "await", "done"}

\* C21: over sources that each yield at least one log, the dates the
\* asynchronous merge prints are, at every moment and in every order in
\* which its fetches complete, the first of the dates the synchronous merge
\* printed, and all of them once it has called done().
C21_SameDatesAsSync ==
  /\ pc \notin {"MaxSizeError", "TypeError"}
  /\ AsyncPhase =>
       /\ Len(printed) <= Len(syncDates)
       /\ \A i \in 1..Len(printed) : Date(printed[i]) = syncDates[i]
       /\ pc = "done" => Len(printed) = Len(syncDates)

\* Both merges have finished over several sources; the asynchronous one
\* printed two logs of the same date with the later-listed source first.
C21_Witness ==
  /\ AsyncPhase
  /\ pc = "done"
  /\ NumSources >= 2
  /\ Len(syncDates) >= 3
  /\ \E i \in 1..(Len(printed) - 1) :
       /\ Date(printed[i]) = Date(printed[i + 1])
       /\ printed[i].source > printed[i + 1].source

----------------------------------------------------------------------------
(* lib/log-source.js used on its own: any caller, any order of calls *)

\* Number of pop and popAsync calls a caller makes.
MaxCalls == MaxLen + 2

\* pop(), lines 34-40.
SourcePop(s) ==
  /\ last' = [last EXCEPT ![s] = NextLast(s)]
  /\ drained' = [drained EXCEPT ![s] = DrainedAfterPop(s)]
  /\ returned' = Append(returned, [source |-> s, log |-> PopValue(s)])
  /\ UNCHANGED promiseQueue

\* popAsync(), lines 48-52, up to the return of the promise.
SourcePopAsync(s) ==
  /\ last' = [last EXCEPT ![s] = NextLast(s)]
  /\ drained' = [drained EXCEPT ![s] = DrainedAfterPop(s)]
  /\ promiseQueue' = Append(promiseQueue, [source |-> s, settled |-> FALSE])
  /\ UNCHANGED returned

\* A caller calls pop or popAsync on some source.
SourceCall ==
  /\ pc = "source"
  /\ Len(returned) + InFlightCount < MaxCalls
  /\ \E s \in Sources : SourcePop(s) \/ SourcePopAsync(s)
  /\ UNCHANGED <<entries, syncDates, config, loading, bufferCount, logSources, priorityQueue,
                 printed, doneCalls, fillIndex, pc>>

\* The delay of a popAsync promise ends (line 52): it resolves to
\* this.drained ? false : this.last as they are now.
SourceResolve ==
  /\ pc = "source"
  /\ \E i \in 1..Len(promiseQueue) :
       /\ ~promiseQueue[i].settled
       /\ promiseQueue' = [promiseQueue EXCEPT ![i].settled = TRUE]
       /\ returned' = Append(returned, [source |-> promiseQueue[i].source,
                                        log |-> PopAsyncValue(promiseQueue[i].source)])
  /\ UNCHANGED <<entries, syncDates, config, last, drained, loading, bufferCount, logSources,
                 priorityQueue, printed, doneCalls, fillIndex, pc>>

\* Streams told apart by their length only: the dates play no part here.
SourceInputs ==
  UNION {[1..k -> {[i \in 1..n |-> i] : n \in 0..MaxLen}] : k \in 1..MaxSources}

SourceInit ==
  \E in \in SourceInputs :
    /\ entries = in
    /\ config = CodeConfig(in)
    /\ returned = <<>>
    /\ syncDates = <<>>
    /\ last = [s \in 1..Len(in) |-> 0]
    /\ drained = [s \in 1..Len(in) |-> FALSE]
    /\ loading = [s \in 1..Len(in) |-> FALSE]
    /\ bufferCount = [s \in 1..Len(in) |-> 0]
    /\ logSources = [i \in 1..Len(in) |-> i]
    /\ priorityQueue = EmptyBag
    /\ promiseQueue = <<>>
    /\ printed = <<>>
    /\ doneCalls = 0
    /\ fillIndex = 0
    /\ pc = "source"

SourceNext == SourceCall \/ SourceResolve

SpecSource == SourceInit /\ [][SourceNext]_vars

\* C11: once a call of pop or popAsync on a source has returned false, the
\* source's drained flag is true in that and every later state, and every
\* later return of a call on that source is false.
C11_ExhaustedIsTerminal ==
  \A i \in 1..Len(returned) :
    returned[i].log = 0 =>
      /\ drained[returned[i].source]
      /\ \A j \in (i + 1)..Len(returned) :
           returned[j].source = returned[i].source => returned[j].log = 0

\* A source returned a log, then false from pop-or-popAsync twice, the
\* second time from a promise that resolved after the first false.
C11_Witness ==
  \E i, j, k \in 1..Len(returned) :
    /\ i < j /\ j < k
    /\ returned[i].source = returned[j].source
    /\ returned[j].source = returned[k].source
    /\ returned[i].log # 0
    /\ returned[j].log = 0
    /\ returned[k].log = 0
    /\ \E n \in 1..Len(promiseQueue) :
         promiseQueue[n].source = returned[k].source /\ promiseQueue[n].settled

====
